---------------------------- MODULE Spec2Model ----------------------------
(***************************************************************************)
(* Model of Timeless/card_types/TimelessTitleCard.py.                      *)
(*                                                                         *)
(* One TimelessTitleCard instance: the fields set by __init__, the         *)
(* memoised title dimensions, and the calls the instance makes on its      *)
(* ImageMagick interface (get_text_dimensions and run).                    *)
(*                                                                         *)
(* Text is a sequence of one-character strings.  "u2022" stands for the    *)
(* single character U+2022 (the bullet of the index text).                 *)
(* A command list is a sequence of elements, one per Python string of the  *)
(* list: opt is the option word, str / num / text its arguments (unused    *)
(* ones are "" / 0 / << >>), and src names the property of the class that  *)
(* produced the element (kept by the model to tell the groups apart).      *)
(***************************************************************************)
EXTENDS Integers, Sequences, FiniteSets

VARIABLES
    args,                    \* the keyword arguments __init__ was called with
    self,                    \* the instance fields set by __init__
    _title_text_dimensions,  \* the memoised title dimensions (None until set)
    calls,                   \* calls made on self.image_magick, in order
    returns,                 \* the value of every get_title_dimensions() call that returned
    builds,                  \* one record per create() call
    nOps                     \* number of method calls made on the instance

vars == <<args, self, _title_text_dimensions, calls, returns, builds, nOps>>

\* Number of method calls (create / get_title_dimensions) made on one instance.
MaxOps == 3

None == << >>

\* ------------------------------------------------------------------------
\* Class constants
\* ------------------------------------------------------------------------
TITLE_FONT == "fonts/Timeless-Main.otf"
TITLE_FONT_INFILL == "fonts/Timeless-Infill.otf"
TITLE_FONT_GEARS == "fonts/Timeless-Gears.otf"
TITLE_COLOR == "#FFFFFF"
TITLE_COLOR_INFILL == "#000000"
TITLE_COLOR_GEARS == "#000000"
EPISODE_TEXT_FONT == "fonts/Timeless-Main.otf"
EPISODE_TEXT_FONT_INFILL == "fonts/Timeless-Infill.otf"
EPISODE_TEXT_FONT_GEARS == "fonts/Timeless-Gears.otf"
EPISODE_TEXT_COLOR == "#FFFFFF"
EPISODE_TEXT_COLOR_INFILL == "#000000"
EPISODE_TEXT_COLOR_GEARS == "#000000"
GRADIENT_IMAGE == "overlays/gradient.png"

\* ------------------------------------------------------------------------
\* Text helpers
\* ------------------------------------------------------------------------
Elem(src, opt, str, num, text) ==
    [src |-> src, opt |-> opt, str |-> str, num |-> num, text |-> text]

\* ImageMagickInterface.escape_chars: a backslash goes before every quote
\* and every backslash of the text.
RECURSIVE escape_chars(_)
escape_chars(s) ==
    IF s = << >> THEN << >>
    ELSE IF Head(s) \in {"\"", "\\"}
         THEN <<"\\", Head(s)>> \o escape_chars(Tail(s))
         ELSE <<Head(s)>> \o escape_chars(Tail(s))

\* len(s.split('\n')): one more than the number of newline characters.
RECURSIVE split_newline_len(_)
split_newline_len(s) ==
    IF s = << >> THEN 1
    ELSE (IF Head(s) = "\n" THEN 1 ELSE 0) + split_newline_len(Tail(s))

\* len(s.splitlines()): lines end at "\n", "\r" or "\r\n"; the empty text
\* has no line and a final line terminator opens no further line.
RECURSIVE splitlines_len(_)
splitlines_len(s) ==
    IF s = << >> THEN 0
    ELSE IF Head(s) = "\r" /\ Len(s) >= 2 /\ s[2] = "\n"
         THEN 1 + splitlines_len(Tail(Tail(s)))
    ELSE IF Head(s) \in {"\n", "\r"}
         THEN 1 + splitlines_len(Tail(s))
    ELSE IF \E i \in 1..Len(s) : s[i] \in {"\n", "\r"}
         THEN splitlines_len(Tail(s))
         ELSE 1

\* ------------------------------------------------------------------------
\* __init__
\* ------------------------------------------------------------------------
title_y(font_vertical_shift) == 47 + font_vertical_shift

init(a) ==
    [ source_file            |-> a.source_file,
      output_file            |-> a.card_file,
      title_text             |-> escape_chars(a.title_text),
      season_text            |-> escape_chars(a.season_text),
      episode_text           |-> escape_chars(a.episode_text),
      hide_season_text       |-> a.hide_season_text,
      hide_episode_text      |-> a.hide_episode_text,
      line_count             |-> split_newline_len(a.title_text),
      font_file              |-> a.font_file,
      font_color             |-> a.font_color,
      font_size              |-> a.font_size,
      font_interline_spacing |-> -50 + a.font_interline_spacing,
      font_vertical_shift    |-> a.font_vertical_shift,
      episode_text_color     |-> a.episode_text_color,
      title_text_size        |-> 256 * a.font_size,
      index_text_size        |-> 60,
      y                      |-> title_y(a.font_vertical_shift) ]


\* ------------------------------------------------------------------------
\* The state a method call works on: the memoised dimensions, the calls made
\* on image_magick so far, the values get_title_dimensions has returned, and
\* whether an exception is propagating (every later step is then skipped).
\* ------------------------------------------------------------------------
State(dims, log, rets, raised) ==
    [dims |-> dims, log |-> log, rets |-> rets, raised |-> raised]

\* A call on self.image_magick.  For run() only cmds is meaningful.
Call(fn, cmds, interline_spacing, line_count, ok, result) ==
    [fn |-> fn, cmds |-> cmds, interline_spacing |-> interline_spacing,
     line_count |-> line_count, ok |-> ok, result |-> result]

\* ------------------------------------------------------------------------
\* Title text layers
\* ------------------------------------------------------------------------
title_text_commands(card) ==
    LET src == "title_text_commands" IN
    << Elem(src, "-font", card.font_file, 0, << >>),
       Elem(src, "-gravity", "south", 0, << >>),
       Elem(src, "-pointsize", "", card.title_text_size, << >>),
       Elem(src, "-kerning", "", 0, << >>),
       Elem(src, "-interline-spacing", "", card.font_interline_spacing, << >>),
       Elem(src, "-background", "transparent", 0, << >>),
       Elem(src, "-fill", card.font_color, 0, << >>),
       Elem(src, "-annotate", "", card.y, card.title_text) >>

title_text_infill_commands(card) ==
    LET src == "title_text_infill_commands" IN
    << Elem(src, "-font", TITLE_FONT_INFILL, 0, << >>),
       Elem(src, "-gravity", "south", 0, << >>),
       Elem(src, "-pointsize", "", card.title_text_size, << >>),
       Elem(src, "-kerning", "", 0, << >>),
       Elem(src, "-interline-spacing", "", card.font_interline_spacing, << >>),
       Elem(src, "-background", "transparent", 0, << >>),
       Elem(src, "-fill", TITLE_COLOR_INFILL, 0, << >>),
       Elem(src, "-annotate", "", card.y, card.title_text) >>

\* Variant of title_text_gears_commands: the layer escapes the title again.
title_text_gears_commands_reescaped(card) ==
    LET src == "title_text_gears_commands" IN
    << Elem(src, "-font", TITLE_FONT_GEARS, 0, << >>),
       Elem(src, "-gravity", "south", 0, << >>),
       Elem(src, "-pointsize", "", card.title_text_size, << >>),
       Elem(src, "-kerning", "", 0, << >>),
       Elem(src, "-interline-spacing", "", card.font_interline_spacing, << >>),
       Elem(src, "-background", "transparent", 0, << >>),
       Elem(src, "-fill", TITLE_COLOR_GEARS, 0, << >>),
       Elem(src, "-annotate", "", card.y, escape_chars(card.title_text)) >>

title_text_gears_commands(card) ==
    LET src == "title_text_gears_commands" IN
    << Elem(src, "-font", TITLE_FONT_GEARS, 0, << >>),
       Elem(src, "-gravity", "south", 0, << >>),
       Elem(src, "-pointsize", "", card.title_text_size, << >>),
       Elem(src, "-kerning", "", 0, << >>),
       Elem(src, "-interline-spacing", "", card.font_interline_spacing, << >>),
       Elem(src, "-background", "transparent", 0, << >>),
       Elem(src, "-fill", TITLE_COLOR_GEARS, 0, << >>),
       Elem(src, "-annotate", "", card.y, card.title_text) >>

\* ------------------------------------------------------------------------
\* get_title_dimensions.  out is what image_magick.get_text_dimensions does
\* if it is called: it returns out.dims (out.ok) or raises (~out.ok).
\* The result is the new state and the returned value.
\* ------------------------------------------------------------------------
\* Variant of get_title_dimensions: the cache is never consulted.
get_title_dimensions_unmemoized(card, st, out) ==
    LET call == Call("get_text_dimensions", title_text_commands(card),
                     card.font_interline_spacing,
                     splitlines_len(card.title_text), out.ok,
                     IF out.ok THEN out.dims ELSE None)
    IN  IF out.ok
        THEN [st  |-> State(out.dims, Append(st.log, call),
                            Append(st.rets, out.dims), FALSE),
              ret |-> out.dims]
        ELSE [st  |-> State(st.dims, Append(st.log, call), st.rets, TRUE),
              ret |-> None]

\* Variant of get_title_dimensions: a failed measurement is swallowed and
\* (0, 0) is cached and returned in its place.
get_title_dimensions_swallowing(card, st, out) ==
    IF st.dims = None
    THEN LET call == Call("get_text_dimensions", title_text_commands(card),
                          card.font_interline_spacing,
                          splitlines_len(card.title_text), out.ok,
                          IF out.ok THEN out.dims ELSE None)
             dims == IF out.ok THEN out.dims ELSE <<0, 0>>
         IN  [st  |-> State(dims, Append(st.log, call), Append(st.rets, dims), FALSE),
              ret |-> dims]
    ELSE [st  |-> State(st.dims, st.log, Append(st.rets, st.dims), FALSE),
          ret |-> st.dims]

get_title_dimensions(card, st, out) ==
    IF st.dims = None
    THEN LET call == Call("get_text_dimensions", title_text_commands(card),
                          card.font_interline_spacing,
                          splitlines_len(card.title_text), out.ok,
                          IF out.ok THEN out.dims ELSE None)
         IN  IF out.ok
             THEN [st  |-> State(out.dims, Append(st.log, call),
                                 Append(st.rets, out.dims), FALSE),
                   ret |-> out.dims]
             ELSE [st  |-> State(st.dims, Append(st.log, call), st.rets, TRUE),
                   ret |-> None]
    ELSE [st  |-> State(st.dims, st.log, Append(st.rets, st.dims), FALSE),
          ret |-> st.dims]

\* ------------------------------------------------------------------------
\* Index text layers.  Each yields its command list and the new state.
\* ------------------------------------------------------------------------
\* Variant of index_offset: the 10 is added instead of subtracted.
index_offset_added(card, title_height) == card.y + title_height + 10

index_offset(card, title_height) == card.y + title_height - 10

index_text_commands(card, st, out) ==
    IF card.hide_season_text /\ card.hide_episode_text
    THEN [cmds |-> << >>, st |-> st]
    ELSE
    LET index_text ==
            IF card.hide_season_text THEN card.episode_text
            ELSE IF card.hide_episode_text THEN card.season_text
            ELSE card.season_text \o <<" ", "u2022", " ">> \o card.episode_text
        d   == get_title_dimensions(card, st, out)
        src == "index_text_commands"
    IN  IF d.st.raised THEN [cmds |-> << >>, st |-> d.st]
        ELSE [cmds |->
                << Elem(src, "-font", EPISODE_TEXT_FONT, 0, << >>),
                   Elem(src, "-gravity", "south", 0, << >>),
                   Elem(src, "-pointsize", "", card.index_text_size, << >>),
                   Elem(src, "-kerning", "", 0, << >>),
                   Elem(src, "-fill", card.episode_text_color, 0, << >>),
                   Elem(src, "-annotate", "", index_offset(card, d.ret[2]),
                        index_text) >>,
              st |-> d.st]

\* Variant of index_text_infill_commands: the two single-text branches are
\* swapped.
index_text_infill_commands_swapped(card, st, out) ==
    IF card.hide_season_text /\ card.hide_episode_text
    THEN [cmds |-> << >>, st |-> st]
    ELSE
    LET index_text ==
            IF card.hide_season_text THEN card.season_text
            ELSE IF card.hide_episode_text THEN card.episode_text
            ELSE card.season_text \o <<" ", "u2022", " ">> \o card.episode_text
        d   == get_title_dimensions(card, st, out)
        src == "index_text_infill_commands"
    IN  IF d.st.raised THEN [cmds |-> << >>, st |-> d.st]
        ELSE [cmds |->
                << Elem(src, "-font", EPISODE_TEXT_FONT_INFILL, 0, << >>),
                   Elem(src, "-gravity", "south", 0, << >>),
                   Elem(src, "-pointsize", "", card.index_text_size, << >>),
                   Elem(src, "-kerning", "", 0, << >>),
                   Elem(src, "-fill", EPISODE_TEXT_COLOR_INFILL, 0, << >>),
                   Elem(src, "-annotate", "", index_offset(card, d.ret[2]),
                        index_text) >>,
              st |-> d.st]

index_text_infill_commands(card, st, out) ==
    IF card.hide_season_text /\ card.hide_episode_text
    THEN [cmds |-> << >>, st |-> st]
    ELSE
    LET index_text ==
            IF card.hide_season_text THEN card.episode_text
            ELSE IF card.hide_episode_text THEN card.season_text
            ELSE card.season_text \o <<" ", "u2022", " ">> \o card.episode_text
        d   == get_title_dimensions(card, st, out)
        src == "index_text_infill_commands"
    IN  IF d.st.raised THEN [cmds |-> << >>, st |-> d.st]
        ELSE [cmds |->
                << Elem(src, "-font", EPISODE_TEXT_FONT_INFILL, 0, << >>),
                   Elem(src, "-gravity", "south", 0, << >>),
                   Elem(src, "-pointsize", "", card.index_text_size, << >>),
                   Elem(src, "-kerning", "", 0, << >>),
                   Elem(src, "-fill", EPISODE_TEXT_COLOR_INFILL, 0, << >>),
                   Elem(src, "-annotate", "", index_offset(card, d.ret[2]),
                        index_text) >>,
              st |-> d.st]

\* Variant of index_text_gears_commands: the title is measured before the
\* hide flags are looked at.
index_text_gears_commands_eager(card, st, out) ==
    LET index_text ==
            IF card.hide_season_text THEN card.episode_text
            ELSE IF card.hide_episode_text THEN card.season_text
            ELSE card.season_text \o <<" ", "u2022", " ">> \o card.episode_text
        d   == get_title_dimensions(card, st, out)
        src == "index_text_gears_commands"
    IN  IF d.st.raised \/ (card.hide_season_text /\ card.hide_episode_text)
        THEN [cmds |-> << >>, st |-> d.st]
        ELSE [cmds |->
                << Elem(src, "-font", EPISODE_TEXT_FONT_GEARS, 0, << >>),
                   Elem(src, "-gravity", "south", 0, << >>),
                   Elem(src, "-pointsize", "", card.index_text_size, << >>),
                   Elem(src, "-kerning", "", 0, << >>),
                   Elem(src, "-fill", EPISODE_TEXT_COLOR_GEARS, 0, << >>),
                   Elem(src, "-annotate", "", index_offset(card, d.ret[2]),
                        index_text) >>,
              st |-> d.st]

\* Variant of index_text_gears_commands: the layer is filled with the
\* user's episode text colour, as the Main layer is.
index_text_gears_commands_userfill(card, st, out) ==
    IF card.hide_season_text /\ card.hide_episode_text
    THEN [cmds |-> << >>, st |-> st]
    ELSE
    LET index_text ==
            IF card.hide_season_text THEN card.episode_text
            ELSE IF card.hide_episode_text THEN card.season_text
            ELSE card.season_text \o <<" ", "u2022", " ">> \o card.episode_text
        d   == get_title_dimensions(card, st, out)
        src == "index_text_gears_commands"
    IN  IF d.st.raised THEN [cmds |-> << >>, st |-> d.st]
        ELSE [cmds |->
                << Elem(src, "-font", EPISODE_TEXT_FONT_GEARS, 0, << >>),
                   Elem(src, "-gravity", "south", 0, << >>),
                   Elem(src, "-pointsize", "", card.index_text_size, << >>),
                   Elem(src, "-kerning", "", 0, << >>),
                   Elem(src, "-fill", card.episode_text_color, 0, << >>),
                   Elem(src, "-annotate", "", index_offset(card, d.ret[2]),
                        index_text) >>,
              st |-> d.st]

index_text_gears_commands(card, st, out) ==
    IF card.hide_season_text /\ card.hide_episode_text
    THEN [cmds |-> << >>, st |-> st]
    ELSE
    LET index_text ==
            IF card.hide_season_text THEN card.episode_text
            ELSE IF card.hide_episode_text THEN card.season_text
            ELSE card.season_text \o <<" ", "u2022", " ">> \o card.episode_text
        d   == get_title_dimensions(card, st, out)
        src == "index_text_gears_commands"
    IN  IF d.st.raised THEN [cmds |-> << >>, st |-> d.st]
        ELSE [cmds |->
                << Elem(src, "-font", EPISODE_TEXT_FONT_GEARS, 0, << >>),
                   Elem(src, "-gravity", "south", 0, << >>),
                   Elem(src, "-pointsize", "", card.index_text_size, << >>),
                   Elem(src, "-kerning", "", 0, << >>),
                   Elem(src, "-fill", EPISODE_TEXT_COLOR_GEARS, 0, << >>),
                   Elem(src, "-annotate", "", index_offset(card, d.ret[2]),
                        index_text) >>,
              st |-> d.st]

gradient_commands(card) ==
    << Elem("gradient_commands", "", GRADIENT_IMAGE, 0, << >>),
       Elem("gradient_commands", "-composite", "", 0, << >>) >>

\* ------------------------------------------------------------------------
\* create.  The three inherited command lists are opaque: resize_and_style
\* and resize_output are one element each, and add_overlay_mask is one
\* element when a mask image exists for the source file and empty otherwise.
\* ------------------------------------------------------------------------
resize_and_style == << Elem("resize_and_style", "", "", 0, << >>) >>

add_overlay_mask(source_file, mask) ==
    IF mask THEN << Elem("add_overlay_mask", "", source_file, 0, << >>) >>
    ELSE << >>

resize_output == << Elem("resize_output", "", "", 0, << >>) >>

\* Variant of command_list: the title layers are drawn before the index
\* layers.
command_list_title_first(card, index, index_infill, index_gears, mask) ==
       << Elem("create", "convert", "", 0, << >>),
          Elem("create", "", card.source_file, 0, << >>) >>
    \o resize_and_style
    \o gradient_commands(card)
    \o title_text_commands(card)
    \o title_text_infill_commands(card)
    \o title_text_gears_commands(card)
    \o index
    \o index_infill
    \o index_gears
    \o add_overlay_mask(card.source_file, mask)
    \o resize_output
    \o << Elem("create", "", card.output_file, 0, << >>) >>

\* The list handed to image_magick.run, given the three index lists.
command_list(card, index, index_infill, index_gears, mask) ==
       << Elem("create", "convert", "", 0, << >>),
          Elem("create", "", card.source_file, 0, << >>) >>
    \o resize_and_style
    \o gradient_commands(card)
    \o index
    \o index_infill
    \o index_gears
    \o title_text_commands(card)
    \o title_text_infill_commands(card)
    \o title_text_gears_commands(card)
    \o add_overlay_mask(card.source_file, mask)
    \o resize_output
    \o << Elem("create", "", card.output_file, 0, << >>) >>

\* Variant of create: the title is measured up front, before the command
\* list is assembled.
create_measuring_first(card, st, out, mask) ==
    LET d  == get_title_dimensions(card, st, out)
        i1 == IF d.st.raised THEN [cmds |-> << >>, st |-> d.st]
              ELSE index_text_commands(card, d.st, out)
        i2 == IF i1.st.raised THEN [cmds |-> << >>, st |-> i1.st]
              ELSE index_text_infill_commands(card, i1.st, out)
        i3 == IF i2.st.raised THEN [cmds |-> << >>, st |-> i2.st]
              ELSE index_text_gears_commands(card, i2.st, out)
    IN  IF i3.st.raised THEN i3.st
        ELSE State(i3.st.dims,
                   Append(i3.st.log,
                          Call("run",
                               command_list(card, i1.cmds, i2.cmds, i3.cmds, mask),
                               0, 0, TRUE, None)),
                   i3.st.rets, FALSE)

\* The list elements are evaluated left to right; an exception raised while
\* one is evaluated leaves create() before image_magick.run is called.
create(card, st, out, mask) ==
    LET i1 == index_text_commands(card, st, out)
        i2 == IF i1.st.raised THEN [cmds |-> << >>, st |-> i1.st]
              ELSE index_text_infill_commands(card, i1.st, out)
        i3 == IF i2.st.raised THEN [cmds |-> << >>, st |-> i2.st]
              ELSE index_text_gears_commands(card, i2.st, out)
    IN  IF i3.st.raised THEN i3.st
        ELSE State(i3.st.dims,
                   Append(i3.st.log,
                          Call("run",
                               command_list(card, i1.cmds, i2.cmds, i3.cmds, mask),
                               0, 0, TRUE, None)),
                   i3.st.rets, FALSE)

\* ------------------------------------------------------------------------
\* Inputs
\* ------------------------------------------------------------------------
Titles ==
    { << >>, <<"A">>, <<"A", "\n", "B">>, <<"\"", "A", "\n">>,
      <<"A", "\r", "\\">> }

\* season_text, episode_text, font_file, font_color, font_size,
\* font_interline_spacing, font_vertical_shift, episode_text_color
Styles ==
    { << <<"S">>, <<"E">>, TITLE_FONT, TITLE_COLOR, 1, 0, 0, EPISODE_TEXT_COLOR >>,
      << <<"S", "\"">>, <<"\\", "E">>, "fonts/Custom.ttf", "#FF0000", 2, 10, 5,
         "#00FF00" >>,
      << <<"S">>, <<"E">>, TITLE_FONT, "#000000", 1, -20, -60, "#000000" >> }

Args ==
    { [ source_file |-> "source.jpg", card_file |-> "card.jpg",
        title_text |-> t, season_text |-> s[1], episode_text |-> s[2],
        hide_season_text |-> hs, hide_episode_text |-> he,
        font_file |-> s[3], font_color |-> s[4], font_size |-> s[5],
        font_interline_spacing |-> s[6], font_vertical_shift |-> s[7],
        episode_text_color |-> s[8] ] :
      t \in Titles, hs \in BOOLEAN, he \in BOOLEAN, s \in Styles }

\* What image_magick.get_text_dimensions may do: return (width, height) or raise.
Dimensions == { <<640, 100>>, <<1200, 213>> }

Outcomes ==
    { [ok |-> TRUE, dims |-> d] : d \in Dimensions }
    \cup { [ok |-> FALSE, dims |-> None] }

\* ------------------------------------------------------------------------
\* State machine
\* ------------------------------------------------------------------------
Init ==
    /\ args \in Args
    /\ self = init(args)
    /\ _title_text_dimensions = None
    /\ calls = << >>
    /\ returns = << >>
    /\ builds = << >>
    /\ nOps = 0

\* card.create()
Create ==
    /\ nOps < MaxOps
    /\ \E out \in Outcomes, mask \in BOOLEAN :
          LET st == create(self, State(_title_text_dimensions, calls, returns, FALSE),
                           out, mask)
          IN  /\ _title_text_dimensions' = st.dims
              /\ calls' = st.log
              /\ returns' = st.rets
              /\ builds' = Append(builds,
                                  [first |-> Len(calls) + 1, last |-> Len(st.log),
                                   raised |-> st.raised,
                                   dims_before |-> _title_text_dimensions,
                                   dims_after |-> st.dims])
    /\ nOps' = nOps + 1
    /\ UNCHANGED <<args, self>>

\* card.get_title_dimensions()
GetTitleDimensions ==
    /\ nOps < MaxOps
    /\ \E out \in Outcomes :
          LET r == get_title_dimensions(self,
                       State(_title_text_dimensions, calls, returns, FALSE), out)
          IN  /\ _title_text_dimensions' = r.st.dims
              /\ calls' = r.st.log
              /\ returns' = r.st.rets
    /\ nOps' = nOps + 1
    /\ UNCHANGED <<args, self, builds>>

Next == Create \/ GetTitleDimensions

Spec == Init /\ [][Next]_vars

\* ------------------------------------------------------------------------
\* Reading the call log
\* ------------------------------------------------------------------------
Runs == { i \in 1..Len(calls) : calls[i].fn = "run" }

Measures == { i \in 1..Len(calls) : calls[i].fn = "get_text_dimensions" }

IndexSrcs ==
    <<"index_text_commands", "index_text_infill_commands",
      "index_text_gears_commands">>

TitleSrcs ==
    <<"title_text_commands", "title_text_infill_commands",
      "title_text_gears_commands">>

Range(f) == { f[i] : i \in DOMAIN f }

\* The elements of a command list that one property produced.
From(ops, src) == SelectSeq(ops, LAMBDA e : e.src = src)

\* The positions of a command list whose element comes from one of srcs.
Positions(ops, srcs) == { i \in 1..Len(ops) : ops[i].src \in srcs }

\* The src tags of a command list, runs of equal tags collapsed to one.
RECURSIVE Groups(_)
Groups(ops) ==
    IF ops = << >> THEN << >>
    ELSE IF Len(ops) >= 2 /\ ops[1].src = ops[2].src THEN Groups(Tail(ops))
    ELSE <<ops[1].src>> \o Groups(Tail(ops))

BothHidden == args.hide_season_text /\ args.hide_episode_text

\* The external calls made during build b.
CallsOf(b) == b.first .. b.last

\* ------------------------------------------------------------------------
\* C1: the operation list create() hands to the renderer is ordered: load
\* source, resize-and-style, gradient, index layers (Main, Infill, Gears;
\* absent when both texts are hidden), title layers (Main, Infill, Gears),
\* mask, resize-output, output path; every index operation precedes every
\* title operation, which precedes the mask, which precedes resize-output.
\* ------------------------------------------------------------------------
C1_OperationOrder ==
    \A r \in Runs :
        LET ops == calls[r].cmds
            g   == Groups(ops)
            idx == IF BothHidden THEN << >> ELSE IndexSrcs
            pre == <<"create", "resize_and_style", "gradient_commands">>
                   \o idx \o TitleSrcs
        IN  /\ g \in { pre \o <<"add_overlay_mask", "resize_output", "create">>,
                       pre \o <<"resize_output", "create">> }
            /\ ops[1].opt = "convert"
            /\ ops[2].str = self.source_file
            /\ ops[Len(ops)].str = self.output_file
            /\ \A i \in Positions(ops, Range(IndexSrcs)),
                  j \in Positions(ops, Range(TitleSrcs)) : i < j
            /\ \A i \in Positions(ops, Range(TitleSrcs)),
                  j \in Positions(ops, {"add_overlay_mask"}) : i < j
            /\ \A i \in Positions(ops, Range(TitleSrcs) \cup {"add_overlay_mask"}),
                  j \in Positions(ops, {"resize_output"}) : i < j

C1_Witness ==
    \E r \in Runs :
        /\ Positions(calls[r].cmds, Range(IndexSrcs)) # {}
        /\ Positions(calls[r].cmds, {"add_overlay_mask"}) # {}

\* ------------------------------------------------------------------------
\* C2: the three index layers resolve the index text alike: both hidden ->
\* each list is empty; only season hidden -> the episode text; only episode
\* hidden -> the season text; neither -> season text, " ", bullet, " ",
\* episode text.
\* ------------------------------------------------------------------------
C2_ExpectedIndexText ==
    IF args.hide_season_text THEN self.episode_text
    ELSE IF args.hide_episode_text THEN self.season_text
    ELSE self.season_text \o <<" ", "u2022", " ">> \o self.episode_text

C2_IndexTextResolution ==
    \A r \in Runs : \A k \in 1..3 :
        LET layer == From(calls[r].cmds, IndexSrcs[k])
        IN  IF BothHidden THEN layer = << >>
            ELSE /\ Len(layer) = 6
                 /\ layer[6].opt = "-annotate"
                 /\ layer[6].text = C2_ExpectedIndexText
                 /\ \A i \in 1..5 : layer[i].text = << >>

C2_Witness ==
    /\ ~args.hide_season_text /\ ~args.hide_episode_text
    /\ \E r \in Runs :
          From(calls[r].cmds, "index_text_gears_commands")[6].text
             = self.season_text \o <<" ", "u2022", " ">> \o self.episode_text

\* ------------------------------------------------------------------------
\* C3 (as stated): over any sequence of calls on one instance the text
\* measurement is invoked at most once (exactly once if there is a call),
\* every call returns the same value and only the first call writes the
\* cache.
\* ------------------------------------------------------------------------
C3_AsStated ==
    /\ Cardinality(Measures) <= 1
    /\ returns # << >> => Cardinality(Measures) = 1
    /\ \A i, j \in 1..Len(returns) : returns[i] = returns[j]
    /\ _title_text_dimensions = (IF returns = << >> THEN None ELSE returns[1])

\* C3 (amended): the text measurement succeeds at most once and is never
\* invoked after it has succeeded (it has succeeded exactly once if any call
\* has returned); every call that returns, returns that one measured value;
\* the cache is written only by the call whose measurement succeeded; a call
\* whose measurement fails leaves the cache unset.
C3_Memoization ==
    LET good == { i \in Measures : calls[i].ok }
    IN  /\ Cardinality(good) <= 1
        /\ \A i \in good : \A j \in Measures : j <= i
        /\ returns # << >> => Cardinality(good) = 1
        /\ \A i \in good : \A k \in 1..Len(returns) : returns[k] = calls[i].result
        /\ _title_text_dimensions = (IF returns = << >> THEN None ELSE returns[1])
        /\ good = {} => _title_text_dimensions = None

C3_Witness ==
    /\ Len(returns) >= 4
    /\ Cardinality(Measures) = 2
    /\ builds # << >>

\* ------------------------------------------------------------------------
\* C4 (as stated): with both texts hidden a build produces no index-layer
\* operation, never uses the index offset, and still performs the title
\* measurement.
\* ------------------------------------------------------------------------
C4_AsStated ==
    BothHidden =>
        \A k \in 1..Len(builds) :
            /\ \A i \in CallsOf(builds[k]) \cap Runs :
                  Positions(calls[i].cmds, Range(IndexSrcs)) = {}
            /\ CallsOf(builds[k]) \cap Measures # {}

\* C4 (amended): with both texts hidden a build produces no index-layer
\* operation, never uses the index offset, and performs no title
\* measurement at all: its only external call is the pipeline run, and it
\* leaves the cache as it was.
C4_BothHidden ==
    BothHidden =>
        \A k \in 1..Len(builds) :
            /\ \A i \in CallsOf(builds[k]) \cap Runs :
                  Positions(calls[i].cmds, Range(IndexSrcs)) = {}
            /\ CallsOf(builds[k]) \cap Measures = {}
            /\ builds[k].last = builds[k].first
            /\ builds[k].last \in Runs
            /\ ~builds[k].raised
            /\ builds[k].dims_after = builds[k].dims_before

C4_Witness ==
    /\ BothHidden
    /\ builds # << >>
    /\ builds[1].first = 1
    /\ _title_text_dimensions = None

\* ------------------------------------------------------------------------
\* C5 (as stated): a build on a fresh instance makes exactly one call on the
\* external renderer, the pipeline run, whatever the hide flags.
\* ------------------------------------------------------------------------
Fresh(b) == b.first = 1 /\ b.dims_before = None

C5_AsStated ==
    \A k \in 1..Len(builds) :
        Fresh(builds[k]) =>
            /\ builds[k].last = 1
            /\ calls[1].fn = "run"

\* C5 (amended): a build on a fresh instance makes at most one pipeline run,
\* as its last external call.  With both texts hidden the run is its only
\* external call.  Otherwise the build first makes one text measurement:
\* two external calls when the measurement succeeds (measurement, then
\* run), one when it fails (the measurement alone, no run).
C5_ExternalCalls ==
    \A k \in 1..Len(builds) :
        LET b == builds[k]
        IN  Fresh(b) =>
              /\ Cardinality(CallsOf(b) \cap Runs) <= 1
              /\ CallsOf(b) \cap Runs \subseteq {b.last}
              /\ IF BothHidden
                 THEN b.last = 1 /\ calls[1].fn = "run"
                 ELSE /\ calls[1].fn = "get_text_dimensions"
                      /\ IF calls[1].ok
                         THEN b.last = 2 /\ calls[2].fn = "run"
                         ELSE b.last = 1 /\ b.raised

C5_Witness ==
    /\ ~BothHidden
    /\ builds # << >>
    /\ Fresh(builds[1])
    /\ builds[1].last = 2

\* ------------------------------------------------------------------------
\* C6: the vertical offset of the three title layers is 47 +
\* font_vertical_shift, and that of the three index layers (when present)
\* is that value plus the measured title height minus 10.
\* ------------------------------------------------------------------------
C6_Annotations(ops, srcs) ==
    { i \in Positions(ops, Range(srcs)) : ops[i].opt = "-annotate" }

C6_Offsets ==
    \A r \in Runs :
        LET ops    == calls[r].cmds
            titleY == 47 + args.font_vertical_shift
        IN  /\ Cardinality(C6_Annotations(ops, TitleSrcs)) = 3
            /\ \A i \in C6_Annotations(ops, TitleSrcs) : ops[i].num = titleY
            /\ ~BothHidden => Cardinality(C6_Annotations(ops, IndexSrcs)) = 3
            /\ \A i \in C6_Annotations(ops, IndexSrcs) :
                  \E m \in Measures :
                      /\ m < r
                      /\ calls[m].ok
                      /\ ops[i].num = titleY + calls[m].result[2] - 10

C6_Witness ==
    /\ args.font_vertical_shift = 5
    /\ \E r \in Runs :
          LET ops == calls[r].cmds
          IN  /\ \E i \in C6_Annotations(ops, TitleSrcs) : ops[i].num = 52
              /\ \E i \in C6_Annotations(ops, IndexSrcs) : ops[i].num = 142

\* ------------------------------------------------------------------------
\* C7: the line count passed to the text measurement is the line count
\* established at construction: the number of newline-separated segments
\* of the raw title text.
\* ------------------------------------------------------------------------
C7_LineCount ==
    \A m \in Measures :
        /\ calls[m].line_count = self.line_count
        /\ calls[m].line_count = split_newline_len(args.title_text)

\* ------------------------------------------------------------------------
\* C8: each free text is escaped once, at construction: the text embedded
\* in every title layer, every index layer and the measurement command is
\* built from escape(raw), however often the lists are built.
\* ------------------------------------------------------------------------
C8_EscapedIndexText ==
    IF args.hide_season_text THEN escape_chars(args.episode_text)
    ELSE IF args.hide_episode_text THEN escape_chars(args.season_text)
    ELSE escape_chars(args.season_text) \o <<" ", "u2022", " ">>
         \o escape_chars(args.episode_text)

C8_EscapedOnce ==
    \A c \in 1..Len(calls) :
        LET ops == calls[c].cmds
        IN  /\ \A i \in C6_Annotations(ops, TitleSrcs) :
                  ops[i].text = escape_chars(args.title_text)
            /\ \A i \in C6_Annotations(ops, IndexSrcs) :
                  ops[i].text = C8_EscapedIndexText
            /\ c \in Measures => C6_Annotations(ops, TitleSrcs) # {}
            /\ c \in Runs => Cardinality(C6_Annotations(ops, TitleSrcs)) = 3

C8_Witness ==
    /\ escape_chars(escape_chars(args.title_text)) # escape_chars(args.title_text)
    /\ escape_chars(args.title_text) # args.title_text
    /\ escape_chars(escape_chars(args.season_text)) # escape_chars(args.season_text)
    /\ Cardinality(Runs) >= 2
    /\ Measures # {}
    /\ \E r \in Runs : C6_Annotations(calls[r].cmds, IndexSrcs) # {}

\* ------------------------------------------------------------------------
\* C9: if the title measurement fails during a build, the build aborts with
\* that failure: the build makes no pipeline run, does not measure again,
\* and leaves the cache unset.
\* ------------------------------------------------------------------------
C9_MeasurementFailure ==
    \A k \in 1..Len(builds) :
        LET b == builds[k]
        IN  /\ \A m \in CallsOf(b) \cap Measures :
                  ~calls[m].ok =>
                      /\ b.raised
                      /\ CallsOf(b) \cap Runs = {}
                      /\ CallsOf(b) \cap Measures = {m}
                      /\ b.dims_after = None
            /\ b.raised => \E m \in CallsOf(b) \cap Measures : ~calls[m].ok

C9_Witness ==
    \E k \in 1..Len(builds) :
        /\ builds[k].raised
        /\ builds[k].last = builds[k].first
        /\ ~calls[builds[k].last].ok
        /\ _title_text_dimensions = None

\* ------------------------------------------------------------------------
\* C10: in the title group and in the index group the Main, Infill and
\* Gears layers carry the same text, gravity (south), point size, kerning
\* (0), interline spacing (title only) and vertical offset; they differ
\* only in font file and fill colour, and the Infill and Gears fill is
\* black whatever colours the user chose.
\* ------------------------------------------------------------------------
C10_SameLayer(a, b) ==
    /\ Len(a) = Len(b)
    /\ \A i \in 1..Len(a) :
          /\ a[i].opt = b[i].opt
          /\ a[i].opt \notin {"-font", "-fill"} =>
                a[i].str = b[i].str /\ a[i].num = b[i].num /\ a[i].text = b[i].text

C10_Option(layer, opt) == { e \in Range(layer) : e.opt = opt }

C10_Group(ops, srcs, size, options) ==
    LET main   == From(ops, srcs[1])
        infill == From(ops, srcs[2])
        gears  == From(ops, srcs[3])
    IN  /\ Len(main) = size
        /\ [i \in 1..size |-> main[i].opt] = options
        /\ C10_SameLayer(main, infill)
        /\ C10_SameLayer(main, gears)
        /\ \A e \in C10_Option(main, "-gravity") : e.str = "south"
        /\ \A e \in C10_Option(main, "-kerning") : e.num = 0
        /\ \A e \in C10_Option(infill, "-fill") \cup C10_Option(gears, "-fill") :
              e.str = "#000000"
        /\ \A e \in C10_Option(infill, "-font") : e.str = "fonts/Timeless-Infill.otf"
        /\ \A e \in C10_Option(gears, "-font") : e.str = "fonts/Timeless-Gears.otf"

C10_LayerConsistency ==
    \A r \in Runs :
        /\ C10_Group(calls[r].cmds, TitleSrcs, 8,
                     <<"-font", "-gravity", "-pointsize", "-kerning",
                       "-interline-spacing", "-background", "-fill", "-annotate">>)
        /\ \A e \in C10_Option(From(calls[r].cmds, TitleSrcs[1]), "-fill") :
              e.str = args.font_color
        /\ \A e \in C10_Option(From(calls[r].cmds, TitleSrcs[1]), "-pointsize") :
              e.num = 256 * args.font_size
        /\ \A e \in C10_Option(From(calls[r].cmds, TitleSrcs[1]), "-interline-spacing") :
              e.num = args.font_interline_spacing - 50
        /\ ~BothHidden =>
              /\ C10_Group(calls[r].cmds, IndexSrcs, 6,
                           <<"-font", "-gravity", "-pointsize", "-kerning", "-fill",
                             "-annotate">>)
              /\ \A e \in C10_Option(From(calls[r].cmds, IndexSrcs[1]), "-fill") :
                    e.str = args.episode_text_color
              /\ \A e \in C10_Option(From(calls[r].cmds, IndexSrcs[1]), "-pointsize") :
                    e.num = 60

C10_Witness ==
    /\ args.font_color = "#FF0000"
    /\ args.episode_text_color = "#00FF00"
    /\ \E r \in Runs :
          /\ Len(From(calls[r].cmds, "index_text_gears_commands")) = 6
          /\ Len(From(calls[r].cmds, "title_text_infill_commands")) = 8

=============================================================================
